---- MODULE Spec2Model ----
(***************************************************************************)
(* A model of the DubStep component (src/src/dub-step.js): the step        *)
(* arithmetic, the controlled / uncontrolled coordination of `step` and    *)
(* `paused`, the playback interval, the animation-delay timeout and the    *)
(* swipe handlers.                                                         *)
(*                                                                         *)
(* Conventions.                                                            *)
(*  - An optional JavaScript value (a prop that may be undefined, the      *)
(*    this.interval handle, this.targetSize, this.wasPlaying) is a set:    *)
(*    {} is undefined, {v} is the value v.                                 *)
(*  - Every handler runs to completion (JavaScript is single threaded),    *)
(*    so a handler, the state updates it enqueues, the componentDidUpdate  *)
(*    they trigger and the setState callbacks are ONE action.  The order   *)
(*    inside an action is React's: the handler body, then the batched      *)
(*    state update, then componentDidUpdate, then the setState callbacks   *)
(*    in the order they were enqueued.                                     *)
(*  - The operators that model methods work on a record w holding the      *)
(*    mutable fields of the instance; W is that record for the current     *)
(*    state and Commit(w) writes it back.                                  *)
(*  - log holds the hooks the LAST action invoked, in order, each with     *)
(*    the arguments it was called with.                                    *)
(***************************************************************************)
EXTENDS Integers, Sequences, FiniteSets, TLC

VARIABLES
  props,       \* this.props
  phase,       \* "new" | "failed" | "constructed" | "mounted" | "unmounted"
  state,       \* this.state
  interval,    \* this.interval: {} or {handle}
  timers,      \* the live setInterval handles of the page
  timeouts,    \* the pending animation setTimeout callbacks: their step, FIFO
  wasPlaying,  \* this.wasPlaying: {} or {TRUE}
  targetSize,  \* this.targetSize: {} or {n}
  log          \* the hooks the last action invoked

vars == <<props, phase, state, interval, timers, timeouts, wasPlaying, targetSize, log>>

(***************************************************************************)
(* Bounds of the model.                                                    *)
(***************************************************************************)
MaxTotal == 3
MaxStep == 4
MaxTimers == 2
MaxPending == 2
MaxDistance == 15

StepRange == (0 - MaxStep)..MaxStep

\* The value of a defined optional.
Val(opt) == CHOOSE v \in opt : TRUE

(***************************************************************************)
(* defaultProps                                                            *)
(***************************************************************************)
defaultTouchThreshold == 20

\* The state before the constructor has run: there is no instance.
NoState == [none |-> TRUE]

(***************************************************************************)
(* utils.js                                                                *)
(***************************************************************************)
\* Mutant of getSign: Math.sign alone, so 0 has sign 0.
getSign_mathSign(number) ==
  IF number > 0 THEN 1 ELSE IF number < 0 THEN -1 ELSE 0

getSign(number) == IF number # 0 THEN (IF number > 0 THEN 1 ELSE -1) ELSE 1

(***************************************************************************)
(* Controlled props                                                        *)
(***************************************************************************)
isPropControlled(p, prop) == p[prop] # {}

getControlledProp(p, prop, st) ==
  IF isPropControlled(p, prop) THEN Val(p[prop]) ELSE st[prop]

(***************************************************************************)
(* Step arithmetic                                                         *)
(***************************************************************************)
\* Mutant of getNextStep: the comparison is off by one.
getNextStep_offByOne(p, step) ==
  IF p.total # 0
    THEN IF p.cycle
      THEN (IF step + p.stepInterval >= p.total - 1 THEN 0
            ELSE step + p.stepInterval)
      ELSE (IF step + p.stepInterval >= p.total - 1 THEN p.total - 1
            ELSE step + p.stepInterval)
    ELSE step + p.stepInterval

getNextStep(p, step) ==
  IF p.total # 0
    THEN IF p.cycle
      THEN (IF step + p.stepInterval > p.total - 1 THEN 0
            ELSE step + p.stepInterval)
      ELSE (IF step + p.stepInterval > p.total - 1 THEN p.total - 1
            ELSE step + p.stepInterval)
    ELSE step + p.stepInterval

\* Mutants of getPreviousStep: cycling wraps to 0; nothing is clamped.
getPreviousStep_wrapToZero(p, step) ==
  IF p.total # 0 /\ step - p.stepInterval < 0 THEN 0
  ELSE step - p.stepInterval

getPreviousStep_unclamped(p, step) ==
  IF p.total # 0 /\ p.cycle /\ step - p.stepInterval < 0 THEN p.total - 1
  ELSE step - p.stepInterval

getPreviousStep(p, step) ==
  IF p.total # 0
    THEN IF p.cycle
      THEN (IF step - p.stepInterval < 0 THEN p.total - 1
            ELSE step - p.stepInterval)
      ELSE (IF step - p.stepInterval < 0 THEN 0
            ELSE step - p.stepInterval)
    ELSE step - p.stepInterval

\* Mutant of getValidStep: cycling wraps modulo total.
getValidStep_modulo(p, st, stepOffset) ==
  LET step == getControlledProp(p, "step", st) IN
  IF p.total # 0 /\ p.cycle THEN (step + stepOffset) % p.total
  ELSE IF p.total # 0 /\ step + stepOffset < 0 THEN 0
  ELSE IF p.total # 0 /\ step + stepOffset > p.total - 1 THEN p.total - 1
  ELSE step + stepOffset

getValidStep(p, st, stepOffset) ==
  LET step == getControlledProp(p, "step", st) IN
  IF p.total # 0 /\ p.cycle THEN step + stepOffset - p.total
  ELSE IF p.total # 0 /\ step + stepOffset < 0 THEN 0
  ELSE IF p.total # 0 /\ step + stepOffset > p.total - 1 THEN p.total - 1
  ELSE step + stepOffset

(***************************************************************************)
(* The state the class field initializer builds.                           *)
(***************************************************************************)
idleTouchObject ==
  [startX |-> 0, startY |-> 0, curX |-> 0, curY |-> 0,
   swipeLength |-> 0, swipeLengthX |-> 0, swipeLengthY |-> 0]

zeroRatio == [num |-> 0, den |-> 1]

\* Mutant of initialState: paused starts as autoPlay.
initialState_pausedIsAutoPlay(p) ==
  [step |-> getControlledProp(p, "step", [step |-> p.defaultStep]),
   paused |-> getControlledProp(p, "paused", [paused |-> p.autoPlay]),
   animating |-> FALSE,
   swiping |-> FALSE,
   dragging |-> FALSE,
   swipeLeftDistance |-> 0,
   swipeDownDistance |-> 0,
   swiped |-> FALSE,
   swipeRatio |-> zeroRatio,
   swipeDirectionSign |-> 1,
   touchObject |-> idleTouchObject]

initialState(p) ==
  [step |-> getControlledProp(p, "step", [step |-> p.defaultStep]),
   paused |-> getControlledProp(p, "paused", [paused |-> ~p.autoPlay]),
   animating |-> FALSE,
   swiping |-> FALSE,
   dragging |-> FALSE,
   swipeLeftDistance |-> 0,
   swipeDownDistance |-> 0,
   swiped |-> FALSE,
   swipeRatio |-> zeroRatio,
   swipeDirectionSign |-> 1,
   touchObject |-> idleTouchObject]

\* Mutant of constructorThrows: autoPlay is not checked.
constructorThrows_cycleOnly(p) == p.cycle /\ p.total = 0

\* The constructor's two checks: TRUE when it throws.
constructorThrows(p) ==
  \/ p.cycle /\ p.total = 0
  \/ p.autoPlay /\ p.duration = 0

(***************************************************************************)
(* The snapshot handed to the hooks and to the render prop.                *)
(***************************************************************************)
getStateAndHelpers(p, st) ==
  [step |-> getControlledProp(p, "step", st),
   paused |-> getControlledProp(p, "paused", st),
   animating |-> st.animating,
   swiping |-> st.swiping,
   dragging |-> st.dragging,
   swipeLeftDistance |-> st.swipeLeftDistance,
   swipeDownDistance |-> st.swipeDownDistance,
   swiped |-> st.swiped,
   swipeRatio |-> st.swipeRatio,
   swipeDirectionSign |-> st.swipeDirectionSign]

(***************************************************************************)
(* The instance record.                                                    *)
(***************************************************************************)
W == [state |-> state, interval |-> interval, timers |-> timers,
      timeouts |-> timeouts, wasPlaying |-> wasPlaying,
      targetSize |-> targetSize, log |-> <<>>]

Commit(w) ==
  /\ state' = w.state
  /\ interval' = w.interval
  /\ timers' = w.timers
  /\ timeouts' = w.timeouts
  /\ wasPlaying' = w.wasPlaying
  /\ targetSize' = w.targetSize
  /\ log' = w.log

\* The model's bounds, as a guard on what an action may produce.
Bounded(w) ==
  /\ w.state.step \in StepRange
  /\ \A i \in 1..Len(w.timeouts) : w.timeouts[i] \in StepRange
  /\ Cardinality(w.timers) <= MaxTimers
  /\ Len(w.timeouts) <= MaxPending

\* A hook is invoked with these arguments.
Call(w, hook, args) ==
  [w EXCEPT !.log = Append(@, [hook |-> hook, args |-> args])]

(***************************************************************************)
(* The playback interval.  Handles are compared for identity only, so a    *)
(* new handle is the least number that no live timer and no stored handle  *)
(* uses.                                                                   *)
(***************************************************************************)
newHandle(w) ==
  CHOOSE h \in 1..(MaxTimers + 2) :
    /\ h \notin (w.timers \cup w.interval)
    /\ \A k \in 1..(h - 1) : k \in (w.timers \cup w.interval)

\* this.interval = this.startPlaying()
startPlaying(w) ==
  [w EXCEPT !.timers = @ \cup {newHandle(w)}, !.interval = {newHandle(w)}]

\* clearInterval(this.interval), the body of stopPlaying
clearInterval(w) == [w EXCEPT !.timers = @ \ w.interval]

\* this.interval = this.stopPlaying()
stopPlaying(w) == [clearInterval(w) EXCEPT !.interval = {}]

(***************************************************************************)
(* Lifecycle                                                               *)
(***************************************************************************)
\* Mutant of componentDidMount: the paused value is not consulted.
componentDidMount_ignoresPaused(p, w) ==
  IF p.duration # 0 THEN startPlaying(w) ELSE w

componentDidMount(p, w) ==
  IF p.duration # 0 /\ ~getControlledProp(p, "paused", w.state)
    THEN startPlaying(w)
    ELSE w

\* w.state is the state after the update, prevState the one before it.
componentDidUpdate(p, prevProps, prevState, w) ==
  IF \/ getControlledProp(p, "paused", w.state)
     \/ /\ p.duration # 0
        /\ ~p.cycle
        /\ getControlledProp(p, "step", w.state) = p.total - 1
    THEN stopPlaying(w)
  ELSE IF p.duration # 0 /\ (prevProps.paused = {TRUE} \/ prevState.paused)
    THEN startPlaying(w)
  ELSE w

componentWillUnmount(w) ==
  IF w.interval # {} THEN clearInterval(w) ELSE w

\* this.setState(changes), for a mounted component: the new state, then
\* componentDidUpdate with the state before it.
setState(p, w, newState) ==
  componentDidUpdate(p, p, w.state, [w EXCEPT !.state = newState])

(***************************************************************************)
(* The coordinator                                                         *)
(***************************************************************************)
\* Mutant of setStepState: the step is committed whether controlled or not.
setStepState_alwaysCommits(p, w, step) ==
  LET w1 == stopPlaying(w)
      w2 == setState(p, w1, [w1.state EXCEPT !.animating = FALSE,
                                             !.step = step,
                                             !.swipeLeftDistance = 0,
                                             !.swipeDownDistance = 0])
      w3 == Call(w2, "onChange", <<getControlledProp(p, "step", w2.state),
                                   getStateAndHelpers(p, w2.state)>>)
  IN Call(w3, "onAfterChange", <<step, getStateAndHelpers(p, w3.state)>>)

\* Mutant of setStepState: onAfterChange is invoked before onChange.
setStepState_afterChangeFirst(p, w, step) ==
  LET w1 == stopPlaying(w) IN
  IF isPropControlled(p, "step")
    THEN LET w2 == Call(w1, "onAfterChange", <<step, getStateAndHelpers(p, w1.state)>>)
         IN Call(w2, "onChange", <<step, getStateAndHelpers(p, w2.state)>>)
  ELSE IF phase # "mounted" THEN w1
  ELSE
    LET w2 == setState(p, w1, [w1.state EXCEPT !.animating = FALSE,
                                               !.step = step,
                                               !.swipeLeftDistance = 0,
                                               !.swipeDownDistance = 0])
        w3 == IF /\ w2.interval = {}
                 /\ p.duration # 0
                 /\ ~getControlledProp(p, "paused", w2.state)
                THEN startPlaying(w2)
                ELSE w2
        w4 == Call(w3, "onAfterChange", <<step, getStateAndHelpers(p, w3.state)>>)
    IN Call(w4, "onChange", <<getControlledProp(p, "step", w4.state),
                              getStateAndHelpers(p, w4.state)>>)

\* Mutant of setStepState: the timer it stops is not started again.
setStepState_noRestart(p, w, step) ==
  LET w1 == stopPlaying(w) IN
  IF isPropControlled(p, "step")
    THEN LET w2 == Call(w1, "onChange", <<step, getStateAndHelpers(p, w1.state)>>)
         IN Call(w2, "onAfterChange", <<step, getStateAndHelpers(p, w2.state)>>)
  ELSE IF phase # "mounted" THEN w1
  ELSE
    LET w2 == setState(p, w1, [w1.state EXCEPT !.animating = FALSE,
                                               !.step = step,
                                               !.swipeLeftDistance = 0,
                                               !.swipeDownDistance = 0])
        w4 == Call(w2, "onChange", <<getControlledProp(p, "step", w2.state),
                                     getStateAndHelpers(p, w2.state)>>)
    IN Call(w4, "onAfterChange", <<step, getStateAndHelpers(p, w4.state)>>)

\* setStepState(nextStateChanges, callback) as changeSlide calls it: the
\* callback is the one that invokes onAfterChange.  setState on a component
\* that is no longer mounted does nothing and drops its callback.
setStepState(p, w, step) ==
  LET w1 == stopPlaying(w) IN
  IF isPropControlled(p, "step")
    THEN LET w2 == Call(w1, "onChange", <<step, getStateAndHelpers(p, w1.state)>>)
         IN Call(w2, "onAfterChange", <<step, getStateAndHelpers(p, w2.state)>>)
  ELSE IF phase # "mounted" THEN w1
  ELSE
    LET w2 == setState(p, w1, [w1.state EXCEPT !.animating = FALSE,
                                               !.step = step,
                                               !.swipeLeftDistance = 0,
                                               !.swipeDownDistance = 0])
        w3 == IF /\ w2.interval = {}
                 /\ p.duration # 0
                 /\ ~getControlledProp(p, "paused", w2.state)
                THEN startPlaying(w2)
                ELSE w2
        w4 == Call(w3, "onChange", <<getControlledProp(p, "step", w3.state),
                                     getStateAndHelpers(p, w3.state)>>)
    IN Call(w4, "onAfterChange", <<step, getStateAndHelpers(p, w4.state)>>)

\* Mutant of setPlayState: the duration is not consulted.
setPlayState_ignoresDuration(p, w, paused) ==
  setState(p, w, [w.state EXCEPT !.paused = paused])

\* setPlayState(paused), with the state update it enqueues applied.
setPlayState(p, w, paused) ==
  IF p.duration = 0 THEN w
  ELSE setState(p, w, [w.state EXCEPT !.paused = paused])

(***************************************************************************)
(* Transitions                                                             *)
(***************************************************************************)
\* The partial state swipeEnd resets the gesture to (and hands to onSwipeEnd).
resetState ==
  [dragging |-> FALSE, swiping |-> FALSE, swiped |-> FALSE,
   swipeRatio |-> zeroRatio, swipeDirectionSign |-> 1,
   swipeLeftDistance |-> 0, swipeDownDistance |-> 0,
   touchObject |-> idleTouchObject]

\* What a handler has enqueued before it calls changeSlide: the state with
\* those updates applied, and whether onSwipeEnd is their callback.  React
\* applies a handler's updates in one batch and then runs the callbacks in
\* the order they were enqueued.
NoBatch(w) == [state |-> w.state, swipeEnd |-> FALSE]

\* Mutant of changeSlide: the step is clamped into 0..total-1 first.
changeSlide_clamped(p, w, step, batch) ==
  LET valid == IF p.total # 0 /\ step > p.total - 1 THEN p.total - 1
               ELSE IF p.total # 0 /\ step < 0 THEN 0
               ELSE step
      w1 == Call(w, "onBeforeChange", <<step, getStateAndHelpers(p, w.state)>>)
      w2 == setState(p, w1, [batch.state EXCEPT
                               !.animating = (p.animationSpeed # 0)])
  IN IF phase # "mounted" THEN w1
     ELSE IF p.animationSpeed # 0
       THEN [w2 EXCEPT !.timeouts = Append(@, valid)]
     ELSE setStepState(p, w2, valid)

changeSlide(p, w, step, batch) ==
  LET w1 == Call(w, "onBeforeChange", <<step, getStateAndHelpers(p, w.state)>>) IN
  IF phase # "mounted" THEN w1
  ELSE
    LET w2 == setState(p, w1, [batch.state EXCEPT
                                 !.animating = (p.animationSpeed # 0)])
        w3 == IF batch.swipeEnd
                THEN Call(w2, "onSwipeEnd",
                          <<resetState, getStateAndHelpers(p, w2.state)>>)
                ELSE w2
    IN IF p.animationSpeed # 0
         THEN [w3 EXCEPT !.timeouts = Append(@, step)]
         ELSE setStepState(p, w3, step)

\* Mutant of next: the step is computed from the state's step.
next_fromInternalStep(p, w, batch) ==
  LET nextStep == getNextStep(p, w.state.step) IN
  changeSlide(p,
              Call(w, "onNext", <<nextStep, getStateAndHelpers(p, w.state)>>),
              nextStep, batch)

next(p, w, batch) ==
  LET nextStep == getNextStep(p, getControlledProp(p, "step", w.state)) IN
  changeSlide(p,
              Call(w, "onNext", <<nextStep, getStateAndHelpers(p, w.state)>>),
              nextStep, batch)

\* Mutant of previous: the step is computed as next computes it.
previous_asNext(p, w, batch) ==
  LET previousStep == getNextStep(p, getControlledProp(p, "step", w.state)) IN
  changeSlide(p,
              Call(w, "onPrevious",
                   <<previousStep, getStateAndHelpers(p, w.state)>>),
              previousStep, batch)

previous(p, w, batch) ==
  LET previousStep == getPreviousStep(p, getControlledProp(p, "step", w.state)) IN
  changeSlide(p,
              Call(w, "onPrevious",
                   <<previousStep, getStateAndHelpers(p, w.state)>>),
              previousStep, batch)

\* Mutant of pause: pausing also ends the animation.
pause_endsAnimation(p, w) ==
  LET w1 == IF ~isPropControlled(p, "paused")
              THEN setPlayState(p, [w EXCEPT !.state.animating = FALSE], TRUE)
            ELSE w
  IN Call(w1, "onPause", <<getStateAndHelpers(p, w.state)>>)

\* pause and play run in a React event handler: the hook sees the state
\* before the update setPlayState enqueued is applied.
pause(p, w) ==
  LET w1 == IF ~isPropControlled(p, "paused") THEN setPlayState(p, w, TRUE)
            ELSE w
  IN Call(w1, "onPause", <<getStateAndHelpers(p, w.state)>>)

play(p, w) ==
  LET w1 == IF ~isPropControlled(p, "paused") THEN setPlayState(p, w, FALSE)
            ELSE w
  IN Call(w1, "onPlay", <<getStateAndHelpers(p, w.state)>>)

mouseEnter(p, w) ==
  IF ~getControlledProp(p, "paused", w.state) /\ p.pauseOnHover
    THEN [pause(p, w) EXCEPT !.wasPlaying = {TRUE}]
    ELSE w

mouseLeave(p, w) ==
  IF /\ w.wasPlaying = {TRUE}
     /\ getControlledProp(p, "paused", w.state)
     /\ p.pauseOnHover
    THEN [play(p, w) EXCEPT !.wasPlaying = {}]
    ELSE w

(***************************************************************************)
(* Gestures.  An event e carries its type, the pointer position and the    *)
(* size of its target.  pageX and pageY are not whole numbers on every     *)
(* device, so a position is kept in quarters of a pixel; Math.sqrt(d ** 2) *)
(* is |d| and Math.round takes it to a whole number of pixels, so the      *)
(* lengths are whole.  A length is compared with                           *)
(* targetSize / touchThreshold by cross multiplication (touchThreshold is  *)
(* positive), and swipeRatio is kept as the fraction num / den.            *)
(***************************************************************************)
Abs(n) == IF n < 0 THEN 0 - n ELSE n

\* A whole number of pixels as a position.
Px(n) == 4 * n

\* Mutant of Round: the fraction is dropped.
Round_floor(q) == q \div 4

\* Math.round of q quarters (q >= 0): the nearest whole number, a half up.
Round(q) == (q + 2) \div 4

\* Mutant of swipeStart: a mouse starts a gesture whether draggable or not.
swipeStart_mouseAlways(p, w, e) ==
  IF ~p.swipe THEN w
  ELSE
    LET w1 == [w EXCEPT !.targetSize = {IF p.vertical THEN e.height ELSE e.width}]
        w2 == setState(p, w1,
                [w1.state EXCEPT
                   !.dragging = TRUE,
                   !.touchObject = [idleTouchObject EXCEPT
                                      !.startX = e.x, !.startY = e.y,
                                      !.curX = e.x, !.curY = e.y]])
    IN Call(w2, "onSwipeStart",
            <<[dragging |-> TRUE, touchObject |-> w2.state.touchObject]>>)

swipeStart(p, w, e) ==
  IF ~p.swipe THEN w
  ELSE IF ~p.draggable /\ e.type = "mouse" THEN w
  ELSE
    LET w1 == [w EXCEPT !.targetSize = {IF p.vertical THEN e.height ELSE e.width}]
        w2 == setState(p, w1,
                [w1.state EXCEPT
                   !.dragging = TRUE,
                   !.touchObject = [idleTouchObject EXCEPT
                                      !.startX = e.x, !.startY = e.y,
                                      !.curX = e.x, !.curY = e.y]])
    IN Call(w2, "onSwipeStart",
            <<[dragging |-> TRUE, touchObject |-> w2.state.touchObject]>>)

swipeMove(p, w, e) ==
  IF ~w.state.dragging THEN w
  ELSE IF w.state.animating THEN w
  ELSE
    LET t0 == w.state.touchObject
        swipeLengthX == Round(Abs(e.x - t0.startX))
        swipeLengthY == Round(Abs(e.y - t0.startY))
        touchObject == [t0 EXCEPT
                          !.curX = e.x, !.curY = e.y,
                          !.swipeLengthX = swipeLengthX,
                          !.swipeLengthY = swipeLengthY,
                          !.swipeLength =
                             IF p.vertical THEN swipeLengthY ELSE swipeLengthX]
        positionOffsetX == IF e.x > t0.startX THEN 1 ELSE -1
        positionOffsetY == IF e.y > t0.startY THEN 1 ELSE -1
        swipeLeftDistance == swipeLengthX * positionOffsetX
        swipeDownDistance == swipeLengthY * positionOffsetY
        swipeDirectionSign ==
          getSign(IF p.vertical THEN swipeDownDistance ELSE swipeLeftDistance)
        axisLength == IF p.vertical THEN swipeLengthY ELSE swipeLengthX
        w2 == setState(p, w,
                [w.state EXCEPT
                   !.touchObject = touchObject,
                   !.swipeLeftDistance = swipeLeftDistance,
                   !.swipeDownDistance = swipeDownDistance,
                   !.swiped = axisLength * p.touchThreshold > Val(w.targetSize),
                   !.swipeRatio = [num |-> axisLength * p.touchThreshold,
                                   den |-> Val(w.targetSize)],
                   !.swipeDirectionSign = swipeDirectionSign,
                   !.swiping = IF touchObject.swipeLength > 4 THEN TRUE ELSE @])
    IN Call(w2, "onSwipeMove",
            <<[swipeLeftDistance |-> swipeLeftDistance,
               swipeDownDistance |-> swipeDownDistance,
               swiped |-> w2.state.swiped],
              getStateAndHelpers(p, w2.state)>>)

\* Mutant of swipeEnd: the reset leaves swiping and the ratio as they were.
swipeEnd_keepsSwiping(p, w) ==
  IF ~w.state.dragging THEN w
  ELSE
    LET swipeDirectionSign == w.state.swipeDirectionSign
        touchObject == w.state.touchObject
        wasAnimating == w.state.animating
        reset == [w.state EXCEPT
                    !.dragging = FALSE, !.swiped = FALSE,
                    !.swipeDirectionSign = 1,
                    !.swipeLeftDistance = 0, !.swipeDownDistance = 0,
                    !.touchObject = idleTouchObject]
    IN IF \/ wasAnimating
          \/ touchObject.swipeLength = 0
          \/ ~(touchObject.swipeLength * p.touchThreshold > Val(w.targetSize))
         THEN LET w2 == setState(p, w, reset)
              IN Call(w2, "onSwipeEnd",
                      <<resetState, getStateAndHelpers(p, w2.state)>>)
       ELSE IF p.swipeIterateOnly \/ swipeDirectionSign = -1
         THEN next(p, w, [state |-> reset, swipeEnd |-> TRUE])
       ELSE previous(p, w, [state |-> reset, swipeEnd |-> TRUE])

\* Mutant of swipeEnd: an animation in progress does not stop the request.
swipeEnd_ignoresAnimating(p, w) ==
  IF ~w.state.dragging THEN w
  ELSE
    LET reset == [w.state EXCEPT
                    !.dragging = FALSE, !.swiping = FALSE, !.swiped = FALSE,
                    !.swipeRatio = zeroRatio, !.swipeDirectionSign = 1,
                    !.swipeLeftDistance = 0, !.swipeDownDistance = 0,
                    !.touchObject = idleTouchObject]
    IN IF \/ w.state.touchObject.swipeLength = 0
          \/ ~(w.state.touchObject.swipeLength * p.touchThreshold
                 > Val(w.targetSize))
         THEN LET w2 == setState(p, w, reset)
              IN Call(w2, "onSwipeEnd",
                      <<resetState, getStateAndHelpers(p, w2.state)>>)
       ELSE IF p.swipeIterateOnly \/ w.state.swipeDirectionSign = -1
         THEN next(p, w, [state |-> reset, swipeEnd |-> TRUE])
       ELSE previous(p, w, [state |-> reset, swipeEnd |-> TRUE])

\* Mutant of swipeEnd: a gesture of exactly the threshold length counts.
swipeEnd_atThreshold(p, w) ==
  IF ~w.state.dragging THEN w
  ELSE
    LET reset == [w.state EXCEPT
                    !.dragging = FALSE, !.swiping = FALSE, !.swiped = FALSE,
                    !.swipeRatio = zeroRatio, !.swipeDirectionSign = 1,
                    !.swipeLeftDistance = 0, !.swipeDownDistance = 0,
                    !.touchObject = idleTouchObject]
    IN IF \/ w.state.animating
          \/ w.state.touchObject.swipeLength = 0
          \/ ~(w.state.touchObject.swipeLength * p.touchThreshold
                 >= Val(w.targetSize))
         THEN LET w2 == setState(p, w, reset)
              IN Call(w2, "onSwipeEnd",
                      <<resetState, getStateAndHelpers(p, w2.state)>>)
       ELSE IF p.swipeIterateOnly \/ w.state.swipeDirectionSign = -1
         THEN next(p, w, [state |-> reset, swipeEnd |-> TRUE])
       ELSE previous(p, w, [state |-> reset, swipeEnd |-> TRUE])

\* Mutant of swipeEnd: swipeIterateOnly is not consulted.
swipeEnd_ignoresIterateOnly(p, w) ==
  IF ~w.state.dragging THEN w
  ELSE
    LET reset == [w.state EXCEPT
                    !.dragging = FALSE, !.swiping = FALSE, !.swiped = FALSE,
                    !.swipeRatio = zeroRatio, !.swipeDirectionSign = 1,
                    !.swipeLeftDistance = 0, !.swipeDownDistance = 0,
                    !.touchObject = idleTouchObject]
    IN IF \/ w.state.animating
          \/ w.state.touchObject.swipeLength = 0
          \/ ~(w.state.touchObject.swipeLength * p.touchThreshold
                 > Val(w.targetSize))
         THEN LET w2 == setState(p, w, reset)
              IN Call(w2, "onSwipeEnd",
                      <<resetState, getStateAndHelpers(p, w2.state)>>)
       ELSE IF w.state.swipeDirectionSign = -1
         THEN next(p, w, [state |-> reset, swipeEnd |-> TRUE])
       ELSE previous(p, w, [state |-> reset, swipeEnd |-> TRUE])

swipeEnd(p, w) ==
  IF ~w.state.dragging THEN w
  ELSE
    LET swipeDirectionSign == w.state.swipeDirectionSign
        touchObject == w.state.touchObject
        wasAnimating == w.state.animating
        reset == [w.state EXCEPT
                    !.dragging = FALSE, !.swiping = FALSE, !.swiped = FALSE,
                    !.swipeRatio = zeroRatio, !.swipeDirectionSign = 1,
                    !.swipeLeftDistance = 0, !.swipeDownDistance = 0,
                    !.touchObject = idleTouchObject]
    IN IF \/ wasAnimating
          \/ touchObject.swipeLength = 0
          \/ ~(touchObject.swipeLength * p.touchThreshold > Val(w.targetSize))
         THEN LET w2 == setState(p, w, reset)
              IN Call(w2, "onSwipeEnd",
                      <<resetState, getStateAndHelpers(p, w2.state)>>)
       ELSE IF p.swipeIterateOnly \/ swipeDirectionSign = -1
         THEN next(p, w, [state |-> reset, swipeEnd |-> TRUE])
       ELSE previous(p, w, [state |-> reset, swipeEnd |-> TRUE])

(***************************************************************************)
(* Inputs: the configurations a widget is built with and the pointer       *)
(* events it receives.                                                     *)
(***************************************************************************)
Optional(S) == {{}} \cup {{v} : v \in S}

\* A configuration with the defaults of defaultProps.
defaults ==
  [total |-> 0, defaultStep |-> 0, stepInterval |-> 1, cycle |-> FALSE,
   swipe |-> FALSE, draggable |-> FALSE, duration |-> 0, autoPlay |-> FALSE,
   touchThreshold |-> defaultTouchThreshold, vertical |-> FALSE,
   pauseOnHover |-> FALSE, swipeIterateOnly |-> FALSE, animationSpeed |-> 0,
   step |-> {}, paused |-> {}]

\* Pointer events on a target 200 wide and 100 high.
EventsAt(points) ==
  {[type |-> t, x |-> pt[1], y |-> pt[2], width |-> 200, height |-> 100] :
     t \in {"mouse", "touch"}, pt \in points}

\* Touches on one line: gestures of length 0 and 15, in both directions.
LineEvents == {e \in EventsAt({<<0, 0>>, <<Px(15), 0>>}) : e.type = "touch"}

\* The values the caller may pass for a prop it controls.
StepProps(p) ==
  IF isPropControlled(p, "step") THEN {{v} : v \in 0..(MaxTotal - 1)} ELSE {{}}
PausedProps(p) ==
  IF isPropControlled(p, "paused") THEN {{TRUE}, {FALSE}} ELSE {{}}

\* The steps a StepIndex is rendered for: below, inside and above 0..total-1.
StepTargets == {-1, 1, MaxStep}

(***************************************************************************)
(* Actions                                                                 *)
(***************************************************************************)
\* new DubStep(props): the constructor throws, or the instance has its state.
Construct ==
  /\ phase = "new"
  /\ IF constructorThrows(props)
       THEN /\ phase' = "failed"
            /\ UNCHANGED state
       ELSE /\ phase' = "constructed"
            /\ state' = initialState(props)
  /\ UNCHANGED <<props, interval, timers, timeouts, wasPlaying, targetSize, log>>

Mount ==
  /\ phase = "constructed"
  /\ phase' = "mounted"
  /\ Commit(componentDidMount(props, W))
  /\ UNCHANGED props

Unmount ==
  /\ phase = "mounted"
  /\ phase' = "unmounted"
  /\ Commit(componentWillUnmount(W))
  /\ UNCHANGED props

\* An action ends with the instance as w, inside the model's bounds.
Finish(w) ==
  /\ \E done \in {w} : Bounded(done) /\ Commit(done)
  /\ UNCHANGED <<props, phase>>

ClickNext ==
  /\ phase = "mounted"
  /\ Finish(next(props, W, NoBatch(W)))

ClickPrevious ==
  /\ phase = "mounted"
  /\ Finish(previous(props, W, NoBatch(W)))

\* StepIndex / getStepControlProps({ step })
ClickStepIndex(step) ==
  /\ phase = "mounted"
  /\ Finish(changeSlide(props, W, step, NoBatch(W)))

ClickPlay ==
  /\ phase = "mounted"
  /\ Finish(play(props, W))

ClickPause ==
  /\ phase = "mounted"
  /\ Finish(pause(props, W))

MouseEnter ==
  /\ phase = "mounted"
  /\ Finish(mouseEnter(props, W))

\* getStepProps binds onMouseLeave to swipeEnd while dragging.
MouseLeave ==
  /\ phase = "mounted"
  /\ Finish(IF state.dragging THEN swipeEnd(props, W) ELSE mouseLeave(props, W))

SwipeStart(e) ==
  /\ phase = "mounted"
  /\ Finish(swipeStart(props, W, e))

SwipeMove(e) ==
  /\ phase = "mounted"
  /\ Finish(swipeMove(props, W, e))

SwipeEnd ==
  /\ phase = "mounted"
  /\ Finish(swipeEnd(props, W))

\* A live interval fires: this.next().  A timer that was never cleared fires
\* after the unmount too.
IntervalTick ==
  /\ timers # {}
  /\ Finish(next(props, W, NoBatch(W)))

\* The oldest pending animation timeout fires: changeSlide's callback.
AnimationEnd ==
  /\ timeouts # <<>>
  /\ Finish(setStepState(props, [W EXCEPT !.timeouts = Tail(@)], Head(timeouts)))

\* The parent renders the widget again, with new values for the props it
\* controls.
ReceiveProps(step, paused) ==
  /\ phase = "mounted"
  /\ props' = [props EXCEPT !.step = step, !.paused = paused]
  /\ LET w == componentDidUpdate(props', props, state, W) IN
       /\ Bounded(w)
       /\ Commit(w)
  /\ UNCHANGED phase

InitWith(configs) ==
  /\ props \in configs
  /\ phase = "new"
  /\ state = NoState
  /\ interval = {}
  /\ timers = {}
  /\ timeouts = <<>>
  /\ wasPlaying = {}
  /\ targetSize = {}
  /\ log = <<>>

Lifecycle == Construct \/ Mount \/ Unmount

Navigate == ClickNext \/ ClickPrevious \/ IntervalTick \/ AnimationEnd

Playback == ClickPlay \/ ClickPause \/ MouseEnter \/ MouseLeave

Gesture(events) ==
  \/ \E e \in events : SwipeStart(e)
  \/ \E e \in events : SwipeMove(e)
  \/ SwipeEnd

Rerender == \E s \in StepProps(props), b \in PausedProps(props) : ReceiveProps(s, b)

SetStep == \E step \in StepTargets : ClickStepIndex(step)

(***************************************************************************)
(* Spec: every action, over families of configurations.  Each family turns *)
(* on the features one part of the component is about; the others keep     *)
(* their defaults.                                                         *)
(***************************************************************************)
\* What the constructor checks.
ConfigsConstruct ==
  {[defaults EXCEPT
      !.total = c[1], !.cycle = c[2], !.duration = c[3], !.autoPlay = c[4]] :
   c \in {0, MaxTotal} \X BOOLEAN \X {0, 150} \X BOOLEAN}

\* The step arithmetic, with step controlled or not.
ConfigsStep ==
  {[defaults EXCEPT
      !.total = c[1], !.cycle = c[2], !.stepInterval = c[3],
      !.defaultStep = c[4], !.step = c[5]] :
   c \in (0..MaxTotal) \X BOOLEAN \X {1, 2} \X {0, MaxTotal - 1, MaxTotal}
         \X Optional({1})}

\* Playback, with step and paused controlled or not.
ConfigsPlay ==
  {[defaults EXCEPT
      !.total = MaxTotal, !.cycle = c[1], !.step = c[2], !.paused = c[3],
      !.autoPlay = c[4], !.duration = 150, !.pauseOnHover = TRUE] :
   c \in BOOLEAN \X Optional({1}) \X Optional(BOOLEAN) \X BOOLEAN}

\* Swipes, with and without a playback timer.
ConfigsSwipe ==
  {[defaults EXCEPT
      !.total = c[1], !.cycle = c[2], !.step = c[3], !.paused = c[4],
      !.duration = c[5], !.swipe = TRUE] :
   c \in {0, MaxTotal} \X BOOLEAN \X Optional({1}) \X Optional({FALSE})
         \X {0, 150}}

\* Animated transitions.
ConfigsAnimate ==
  {[defaults EXCEPT
      !.total = c[1], !.step = c[2], !.duration = c[3], !.autoPlay = c[4],
      !.animationSpeed = 300] :
   c \in {0, MaxTotal} \X Optional({1}) \X {0, 150} \X BOOLEAN}

Configs ==
  ConfigsConstruct \cup ConfigsStep \cup ConfigsPlay \cup ConfigsSwipe
    \cup ConfigsAnimate

Init == InitWith(Configs)

Next ==
  \/ Lifecycle
  \/ Navigate
  \/ Playback
  \/ Gesture(LineEvents)
  \/ Rerender
  \/ SetStep

Spec == Init /\ [][Next]_vars

(***************************************************************************)
(* SpecNav: navigation inside a configured total.  The widget starts on a  *)
(* step of 0..total-1 and no StepIndex is clicked.                         *)
(***************************************************************************)
ConfigsNav ==
  {c \in Configs :
     /\ c.total > 0
     /\ c.defaultStep \in 0..(c.total - 1)
     /\ c.step \subseteq 0..(c.total - 1)}

InitNav == InitWith(ConfigsNav)

NextNav ==
  \/ Lifecycle
  \/ Navigate
  \/ Playback
  \/ Gesture(LineEvents)
  \/ Rerender

SpecNav == InitNav /\ [][NextNav]_vars

(***************************************************************************)
(* SpecGesture: gestures alone, enabled or not, with a mouse or a finger,  *)
(* on either axis, and horizontal gestures with an animation delay.  The   *)
(* pointer visits five points: on a target 200 wide the threshold of a     *)
(* horizontal swipe is 10, so the horizontal lengths 5, 10 and 15 fall     *)
(* below, on and above it; on a target 100 high the threshold of a         *)
(* vertical swipe is 5 and the vertical length 6 is above it.  The fifth   *)
(* point is three quarters of a pixel short of 15, between two whole       *)
(* pixels.                                                                 *)
(***************************************************************************)
GestureEvents ==
  EventsAt({<<0, 0>>, <<Px(10), 0>>, <<Px(15) - 3, 0>>, <<Px(15), 0>>,
            <<0, Px(6)>>})

ConfigsGesture ==
  {[defaults EXCEPT
      !.total = MaxTotal, !.swipe = c[5], !.draggable = c[1],
      !.vertical = c[2], !.swipeIterateOnly = c[3], !.step = c[4]] :
   c \in BOOLEAN \X BOOLEAN \X BOOLEAN \X Optional({1}) \X BOOLEAN}
  \cup
  {[defaults EXCEPT
      !.total = MaxTotal, !.swipe = TRUE, !.draggable = TRUE,
      !.animationSpeed = 300, !.step = s] : s \in Optional({1})}

InitGesture == InitWith(ConfigsGesture)

NextGesture ==
  \/ Lifecycle
  \/ Gesture(GestureEvents)
  \/ MouseLeave
  \/ ClickNext
  \/ AnimationEnd

SpecGesture == InitGesture /\ [][NextGesture]_vars

(***************************************************************************)
(* SpecNoDuration: a widget without a duration, with and without           *)
(* pauseOnHover, paused controlled or not.  No playback timer exists, so   *)
(* no tick is among its actions.                                           *)
(***************************************************************************)
ConfigsNoDuration ==
  {[defaults EXCEPT
      !.total = c[1], !.pauseOnHover = c[2], !.paused = c[3], !.step = c[4]] :
   c \in {0, MaxTotal} \X BOOLEAN \X Optional(BOOLEAN) \X Optional({1})}

InitNoDuration == InitWith(ConfigsNoDuration)

NextNoDuration ==
  \/ Lifecycle
  \/ Playback
  \/ ClickNext
  \/ ClickPrevious
  \/ Rerender

SpecNoDuration == InitNoDuration /\ [][NextNoDuration]_vars

(***************************************************************************)
(* SpecAutoplay: a cycling widget that plays by itself, step and paused    *)
(* uncontrolled, and nobody touches it: with an animation delay, from      *)
(* every step of every total, and without one, from step 0 of the largest  *)
(* total.  setInterval fires for as long as the timer stays live and a     *)
(* setTimeout fires once it is scheduled, hence the weak fairness of the   *)
(* tick and of the delayed commit.                                         *)
(***************************************************************************)
ConfigsAutoplay ==
  {[defaults EXCEPT
      !.total = c[1], !.cycle = TRUE, !.stepInterval = c[2],
      !.defaultStep = c[3], !.animationSpeed = 300,
      !.duration = 150, !.autoPlay = TRUE] :
   c \in {c \in (1..MaxTotal) \X {1, 2} \X (0..(MaxTotal - 1)) : c[3] < c[1]}}
  \cup
  {[defaults EXCEPT
      !.total = MaxTotal, !.cycle = TRUE, !.stepInterval = i,
      !.duration = 150, !.autoPlay = TRUE] : i \in {1, 2}}

InitAutoplay == InitWith(ConfigsAutoplay)

NextAutoplay ==
  \/ Construct
  \/ Mount
  \/ IntervalTick
  \/ AnimationEnd

SpecAutoplay ==
  /\ InitAutoplay
  /\ [][NextAutoplay]_vars
  /\ WF_vars(Construct)
  /\ WF_vars(Mount)
  /\ WF_vars(IntervalTick)
  /\ WF_vars(AnimationEnd)

(***************************************************************************)
(* Reading the log.                                                        *)
(***************************************************************************)
Live == phase \in {"constructed", "mounted", "unmounted"}

\* The positions of the log where `hook` was invoked.
Invoked(hook) == {i \in 1..Len(log) : log[i].hook = hook}

\* For onNext, onPrevious, onBeforeChange, onChange and onAfterChange: the
\* step the hook was given and the snapshot it was given.
StepOf(i) == log[i].args[1]
SnapOf(i) == log[i].args[2]

(***************************************************************************)
(* C1. While the caller supplies step (paused), no action changes the      *)
(* step (paused) the state holds; a step request only notifies: with no    *)
(* animation delay every onBeforeChange(t) of a mounted widget with a      *)
(* controlled step is followed by onChange(t) in the same action.          *)
(***************************************************************************)
ControlledNotified ==
  (phase = "mounted" /\ isPropControlled(props, "step") /\ props.animationSpeed = 0)
    => \A i \in Invoked("onBeforeChange") :
         \E j \in Invoked("onChange") : j > i /\ StepOf(j) = StepOf(i)

C1_ControlledFieldNeverMutated ==
  [][Live =>
       /\ isPropControlled(props, "step") => state'.step = state.step
       /\ isPropControlled(props, "paused") => state'.paused = state.paused
       /\ ControlledNotified']_vars

C1_Witness ==
  /\ phase = "mounted"
  /\ isPropControlled(props, "step")
  /\ isPropControlled(props, "paused")
  /\ \E i \in Invoked("onChange") :
       StepOf(i) # state.step /\ StepOf(i) # Val(props.step)

(***************************************************************************)
(* C2. The constructor fails exactly when cycle comes without a total or   *)
(* autoPlay without a duration; then there is no state, no timer and no    *)
(* hook has been invoked.                                                  *)
(***************************************************************************)
C2_ConstructionErrors ==
  phase # "new" =>
    /\ phase = "failed" <=>
         \/ props.cycle /\ props.total = 0
         \/ props.autoPlay /\ props.duration = 0
    /\ phase = "failed" =>
         /\ state = NoState
         /\ interval = {} /\ timers = {} /\ timeouts = <<>>
         /\ log = <<>>

C2_Witness ==
  /\ phase = "failed"
  /\ props.autoPlay /\ props.duration = 0
  /\ ~props.cycle

(***************************************************************************)
(* C3. The state the constructor leaves: step is the step prop or          *)
(* defaultStep, paused is the paused prop or the negation of autoPlay,     *)
(* and the gesture is idle.                                                *)
(***************************************************************************)
C3_InitialState ==
  phase = "constructed" =>
    /\ state.step = (IF props.step = {} THEN props.defaultStep ELSE Val(props.step))
    /\ state.paused = (IF props.paused = {} THEN ~props.autoPlay ELSE Val(props.paused))
    /\ ~state.animating /\ ~state.dragging /\ ~state.swiping /\ ~state.swiped
    /\ state.swipeLeftDistance = 0 /\ state.swipeDownDistance = 0
    /\ state.swipeRatio.num = 0
    /\ state.swipeDirectionSign = 1

C3_Witness ==
  /\ phase = "constructed"
  /\ props.duration > 0 /\ ~props.autoPlay /\ props.paused = {}
  /\ state.paused

(***************************************************************************)
(* C4. getNextStep and getPreviousStep are the reference arithmetic, for   *)
(* every step of the range, and so is every step next() and previous()     *)
(* hand to onNext and onPrevious.                                          *)
(***************************************************************************)
RefNextStep(s) ==
  IF props.total > 0 /\ s + props.stepInterval > props.total - 1
    THEN (IF props.cycle THEN 0 ELSE props.total - 1)
    ELSE s + props.stepInterval

RefPreviousStep(s) ==
  IF props.total > 0 /\ s - props.stepInterval < 0
    THEN (IF props.cycle THEN props.total - 1 ELSE 0)
    ELSE s - props.stepInterval

C4_StepArithmetic ==
  Live =>
    /\ \A s \in StepRange :
         /\ getNextStep(props, s) = RefNextStep(s)
         /\ getPreviousStep(props, s) = RefPreviousStep(s)
    /\ \A i \in Invoked("onNext") : StepOf(i) = RefNextStep(SnapOf(i).step)
    /\ \A i \in Invoked("onPrevious") : StepOf(i) = RefPreviousStep(SnapOf(i).step)

C4_Witness ==
  /\ props.total > 0 /\ ~props.cycle /\ props.stepInterval = 2
  /\ \E i \in Invoked("onNext") :
       SnapOf(i).step = props.total - 2 /\ StepOf(i) = props.total - 1

(***************************************************************************)
(* C5. Cycling, step uncontrolled, no animation delay: next() on the last  *)
(* step commits 0 and invokes onNext and onChange with 0; previous() on    *)
(* step 0 commits total-1 and invokes onPrevious and onChange with it.     *)
(***************************************************************************)
C5_CyclicWraparound ==
  ( /\ phase = "mounted"
    /\ props.total > 0 /\ props.cycle
    /\ ~isPropControlled(props, "step")
    /\ props.animationSpeed = 0 )
  => /\ \A i \in Invoked("onNext") :
          SnapOf(i).step = props.total - 1 =>
            /\ StepOf(i) = 0
            /\ state.step = 0
            /\ \E j \in Invoked("onChange") : StepOf(j) = 0
     /\ \A i \in Invoked("onPrevious") :
          SnapOf(i).step = 0 =>
            /\ StepOf(i) = props.total - 1
            /\ state.step = props.total - 1
            /\ \E j \in Invoked("onChange") : StepOf(j) = props.total - 1

C5_Witness ==
  /\ phase = "mounted"
  /\ props.total = MaxTotal /\ props.cycle /\ props.stepInterval = 1
  /\ ~isPropControlled(props, "step") /\ props.animationSpeed = 0
  /\ state.step = 0
  /\ \E i \in Invoked("onNext") : SnapOf(i).step = props.total - 1

(***************************************************************************)
(* C6. With a total, from a step of 0..total-1, next, previous, timer      *)
(* ticks and swipe releases keep the step (and every step waiting to be    *)
(* committed) in 0..total-1; without cycle getNextStep never exceeds       *)
(* total-1 and getPreviousStep never goes below 0.                         *)
(***************************************************************************)
C6_BoundedNavigation ==
  Live =>
    /\ state.step \in 0..(props.total - 1)
    /\ \A k \in 1..Len(timeouts) : timeouts[k] \in 0..(props.total - 1)
    /\ ~props.cycle =>
         \A s \in StepRange :
           /\ getNextStep(props, s) <= props.total - 1
           /\ getPreviousStep(props, s) >= 0

C6_Witness ==
  /\ phase = "mounted"
  /\ ~props.cycle /\ ~isPropControlled(props, "step")
  /\ state.step = props.total - 1
  /\ Invoked("onSwipeEnd") # {}
  /\ \E i \in Invoked("onNext") : SnapOf(i).step = props.total - 1

(***************************************************************************)
(* C7. With a total the step is in 0..total-1 in every state.              *)
(***************************************************************************)
C7_StepWithinTotal ==
  (Live /\ props.total > 0) => state.step \in 0..(props.total - 1)

(***************************************************************************)
(* C8. Without a total, step uncontrolled, no animation delay: next()      *)
(* commits step + stepInterval, previous() commits step - stepInterval,    *)
(* below 0 too, and onNext / onPrevious get the new step.                  *)
(***************************************************************************)
C8_UnboundedNavigation ==
  ( /\ phase = "mounted"
    /\ props.total = 0
    /\ ~isPropControlled(props, "step")
    /\ props.animationSpeed = 0 )
  => /\ \A i \in Invoked("onNext") :
          /\ StepOf(i) = SnapOf(i).step + props.stepInterval
          /\ state.step = SnapOf(i).step + props.stepInterval
     /\ \A i \in Invoked("onPrevious") :
          /\ StepOf(i) = SnapOf(i).step - props.stepInterval
          /\ state.step = SnapOf(i).step - props.stepInterval

C8_Witness ==
  /\ phase = "mounted"
  /\ props.total = 0 /\ props.stepInterval = 1
  /\ ~isPropControlled(props, "step") /\ props.animationSpeed = 0
  /\ state.step = -1
  /\ \E i \in Invoked("onPrevious") : SnapOf(i).step = 0 /\ StepOf(i) = -1

(***************************************************************************)
(* C9. Step uncontrolled: a click on StepIndex(t) invokes onBeforeChange   *)
(* with t and, once the transition commits (in the same action without an  *)
(* animation delay, when the timeout fires with one), the step is t and    *)
(* onChange and onAfterChange are invoked with t.  An action whose first   *)
(* hook is onBeforeChange is such a click; one whose first hook is         *)
(* onChange is the timeout.                                                *)
(***************************************************************************)
C9_DirectSetStep ==
  (phase = "mounted" /\ ~isPropControlled(props, "step") /\ log # <<>>) =>
    /\ (log[1].hook = "onBeforeChange" /\ props.animationSpeed = 0) =>
         /\ state.step = StepOf(1)
         /\ Len(log) = 3
         /\ log[2].hook = "onChange" /\ StepOf(2) = StepOf(1)
         /\ SnapOf(2).step = StepOf(1)
         /\ log[3].hook = "onAfterChange" /\ StepOf(3) = StepOf(1)
    /\ (log[1].hook = "onBeforeChange" /\ props.animationSpeed # 0) =>
         /\ Len(log) = 1
         /\ timeouts # <<>> /\ timeouts[Len(timeouts)] = StepOf(1)
    /\ log[1].hook = "onChange" =>
         /\ state.step = StepOf(1)
         /\ Len(log) = 2
         /\ log[2].hook = "onAfterChange" /\ StepOf(2) = StepOf(1)

C9_Witness ==
  /\ phase = "mounted"
  /\ ~isPropControlled(props, "step")
  /\ props.stepInterval = 2 /\ props.total = MaxTotal
  /\ log # <<>> /\ log[1].hook = "onBeforeChange"
  /\ SnapOf(1).step = 0
  /\ state.step = MaxStep

(***************************************************************************)
(* C10. With a duration and paused uncontrolled, away from the last step   *)
(* of a sequence that does not cycle: play() leaves paused false and a     *)
(* playback timer live, pause() leaves paused true and no timer live, and  *)
(* each invokes its hook.                                                  *)
(***************************************************************************)
C10_PlayPause ==
  ( /\ phase = "mounted"
    /\ props.duration > 0
    /\ ~isPropControlled(props, "paused")
    /\ ~(~props.cycle /\ getControlledProp(props, "step", state) = props.total - 1) )
  => /\ Invoked("onPlay") # {} => (~state.paused /\ timers # {})
     /\ Invoked("onPause") # {} => (state.paused /\ timers = {})

(***************************************************************************)
(* Timers.  The effective paused value is the paused prop when the caller  *)
(* supplies it, the state's otherwise.                                     *)
(***************************************************************************)
EffectivePaused == getControlledProp(props, "paused", state)
EffectiveStep == getControlledProp(props, "step", state)

\* The last step of a sequence that does not cycle.
OnLastStep == ~props.cycle /\ EffectiveStep = props.total - 1

(***************************************************************************)
(* C11. The mount starts a playback timer exactly when a duration is       *)
(* configured and the effective paused value is false.  With paused        *)
(* uncontrolled: autoPlay with a duration mounts with paused false and a   *)
(* timer, a duration without autoPlay mounts with no timer.                *)
(***************************************************************************)
C11_TimerOnMount ==
  [][(phase = "constructed" /\ phase' = "mounted") =>
       /\ timers' # {} <=> (props.duration > 0 /\ ~EffectivePaused')
       /\ timers' # {} => (interval' = timers' /\ Cardinality(timers') = 1)
       /\ (props.duration > 0 /\ props.autoPlay /\ props.paused = {}) =>
            (~state'.paused /\ timers' # {})
       /\ (props.duration > 0 /\ ~props.autoPlay /\ props.paused = {}) =>
            timers' = {}]_vars

\* Mounted with autoPlay and a duration, playing; nothing else has happened.
C11_Witness ==
  /\ phase = "mounted"
  /\ props.duration > 0 /\ props.autoPlay /\ props.paused = {}
  /\ ~state.paused /\ timers # {} /\ interval = timers
  /\ log = <<>> /\ state = initialState(props)

(***************************************************************************)
(* C12. At most one playback timer is live in every state.                 *)
(***************************************************************************)
C12_SingleTimer == Cardinality(timers) <= 1

(***************************************************************************)
(* C13. While the widget is mounted and the effective paused value is      *)
(* true, no playback timer is live.                                        *)
(***************************************************************************)
C13_NoTimerWhilePaused ==
  (phase = "mounted" /\ EffectivePaused) => timers = {}

(***************************************************************************)
(* C14. Without cycle, with a total and a duration: while the widget is    *)
(* mounted on the last step no playback timer is live, so no timer tick    *)
(* fires there.                                                            *)
(***************************************************************************)
C14_StoppedOnLastStep ==
  ( /\ phase = "mounted"
    /\ props.total > 0 /\ props.duration > 0
    /\ OnLastStep )
  => timers = {}

(***************************************************************************)
(* C15. After every action that leaves the widget mounted with a           *)
(* duration, the effective paused value false and the step not the last    *)
(* one of a sequence that does not cycle, a playback timer is live: in     *)
(* every such state when step is uncontrolled, and, when step is           *)
(* controlled, after the re-render in which the caller passes the step     *)
(* the last onChange notified.                                             *)
(***************************************************************************)
\* The caller re-renders with the step onChange was just given.
FedBack ==
  /\ isPropControlled(props, "step")
  /\ props' # props
  /\ \E i \in Invoked("onChange") : props'.step = {StepOf(i)}

C15_TimerRestart ==
  [][( /\ phase' = "mounted"
       /\ props.duration > 0
       /\ ~EffectivePaused' /\ ~OnLastStep'
       /\ (~isPropControlled(props, "step") \/ FedBack) )
     => timers' # {}]_vars

(***************************************************************************)
(* C16. After the unmount no playback timer is live.                       *)
(***************************************************************************)
C16_NoTimerAfterUnmount == phase = "unmounted" => timers = {}

(***************************************************************************)
(* C17. After the unmount no animation timeout is pending, and no hook is  *)
(* invoked on the unmounted widget.                                        *)
(***************************************************************************)
C17_NoCommitAfterUnmount ==
  phase = "unmounted" => (timeouts = <<>> /\ log = <<>>)

(***************************************************************************)
(* C18. At most one animation timeout is pending in every state.           *)
(***************************************************************************)
C18_SinglePendingCommit == Len(timeouts) <= 1

(***************************************************************************)
(* C19. No stale tick races an explicit navigation.  When the last action  *)
(* was previous() or a click on a StepIndex, requested while the playback  *)
(* timer runs, a tick that fires next computes its step from the step      *)
(* that navigation was given: the tick may not schedule a commit computed  *)
(* from the step the navigation replaces.  Timeouts fire in the order      *)
(* they were scheduled, so a commit scheduled by such a tick lands after   *)
(* the navigation's commit and replaces it.                                *)
(***************************************************************************)
\* The last action was previous() or a click on a StepIndex.
ExplicitNavigation ==
  /\ phase = "mounted"
  /\ log # <<>>
  /\ log[1].hook \in {"onPrevious", "onBeforeChange"}

\* The step that navigation handed to onBeforeChange.
ExplicitTarget == StepOf(CHOOSE i \in Invoked("onBeforeChange") : TRUE)

C19_NoStaleTick ==
  [][(ExplicitNavigation /\ IntervalTick) =>
       /\ log'[1].hook = "onNext"
       /\ StepOf(1)' = getNextStep(props, ExplicitTarget)]_vars

(***************************************************************************)
(* C20. A release while dragging, with no animation in progress and a      *)
(* gesture longer than targetSize / touchThreshold, makes exactly one step *)
(* request: next() when the direction sign is -1 or swipeIterateOnly is    *)
(* set, previous() otherwise; the request is for the step the arithmetic   *)
(* gives from the current step.                                            *)
(***************************************************************************)
\* The gesture the state holds is long enough to change the step.
LongSwipe ==
  /\ state.dragging
  /\ ~state.animating
  /\ state.touchObject.swipeLength * props.touchThreshold > Val(targetSize)

C20_SwipeRelease ==
  [][(phase = "mounted" /\ LongSwipe /\ SwipeEnd) =>
       /\ Cardinality(Invoked("onNext")' \cup Invoked("onPrevious")') = 1
       /\ Cardinality(Invoked("onBeforeChange")') = 1
       /\ Cardinality(Invoked("onSwipeEnd")') = 1
       /\ IF state.swipeDirectionSign = -1 \/ props.swipeIterateOnly
            THEN /\ log'[1].hook = "onNext"
                 /\ StepOf(1)' = getNextStep(props, EffectiveStep)
            ELSE /\ log'[1].hook = "onPrevious"
                 /\ StepOf(1)' = getPreviousStep(props, EffectiveStep)
       /\ log'[2].hook = "onBeforeChange" /\ StepOf(2)' = StepOf(1)']_vars

\* A release of a long gesture in the positive direction with
\* swipeIterateOnly: next() was requested.
C20_Witness ==
  /\ phase = "mounted"
  /\ props.swipeIterateOnly
  /\ Invoked("onSwipeEnd") # {}
  /\ log[1].hook = "onNext"
  /\ SnapOf(1).swipeDirectionSign = 1
  /\ SnapOf(1).dragging /\ ~SnapOf(1).animating

(***************************************************************************)
(* C21. A release changes the step only if the gesture is strictly longer  *)
(* than targetSize / touchThreshold on the primary axis.  A release of a   *)
(* gesture of length 0, below the threshold or exactly on it (horizontal   *)
(* lengths 0, 5 and 10 on a target 200 wide with touchThreshold 20)        *)
(* leaves the step and the pending commits as they are and invokes only    *)
(* onSwipeEnd.  A release of a longer gesture (length 15) with no          *)
(* animation in progress requests a step, and with step uncontrolled and   *)
(* no animation delay the step becomes the requested one.                  *)
(***************************************************************************)
C21_SwipeThreshold ==
  [][(phase = "mounted" /\ state.dragging /\ SwipeEnd) =>
       IF state.touchObject.swipeLength * props.touchThreshold > Val(targetSize)
         THEN ~state.animating =>
                /\ Invoked("onBeforeChange")' # {}
                /\ (~isPropControlled(props, "step") /\ props.animationSpeed = 0)
                     => state'.step = StepOf(1)'
         ELSE /\ state'.step = state.step
              /\ timeouts' = timeouts
              /\ \A i \in 1..Len(log') : log'[i].hook = "onSwipeEnd"]_vars

\* A horizontal gesture of length 15 on a target 200 wide was released and
\* the step changed.
C21_Witness ==
  /\ phase = "mounted"
  /\ props.touchThreshold = 20 /\ targetSize = {200}
  /\ Invoked("onSwipeEnd") # {}
  /\ log[1].hook \in {"onNext", "onPrevious"}
  /\ SnapOf(1).swipeRatio = [num |-> 300, den |-> 200]
  /\ state.step # SnapOf(1).step

(***************************************************************************)
(* C22. A gesture handler whose precondition fails does nothing: a         *)
(* swipeStart with swipe disabled, a swipeStart from a mouse with          *)
(* draggable disabled, a swipeMove while not dragging and a swipeEnd while *)
(* not dragging leave the state, the timers, the pending commits and the   *)
(* target size as they are and invoke no hook.                             *)
(***************************************************************************)
Untouched ==
  /\ UNCHANGED <<state, interval, timers, timeouts, wasPlaying, targetSize>>
  /\ log' = <<>>

InvalidStart(e) == ~props.swipe \/ (~props.draggable /\ e.type = "mouse")

C22_GestureNoOps ==
  [][phase = "mounted" =>
       /\ \A e \in GestureEvents :
            (InvalidStart(e) /\ SwipeStart(e)) => Untouched
       /\ \A e \in GestureEvents :
            (~state.dragging /\ SwipeMove(e)) => Untouched
       /\ (~state.dragging /\ SwipeEnd) => Untouched]_vars

\* After a touch gesture changed the step (an action that invokes hooks), a
\* handler ran and did nothing: with draggable disabled a mouse press, a
\* move or a release finds no gesture to work on.
C22_Witness ==
  /\ phase = "mounted"
  /\ props.swipe /\ ~props.draggable
  /\ props.animationSpeed = 0 /\ ~isPropControlled(props, "step")
  /\ ~state.dragging
  /\ state.step # props.defaultStep
  /\ log = <<>>

(***************************************************************************)
(* C23. While animating is true a swipeMove does nothing: the gesture      *)
(* fields stay as they are and onSwipeMove is not invoked.  A swipeEnd     *)
(* while dragging and animating resets the gesture to idle and invokes     *)
(* onSwipeEnd and nothing else: no step is requested, whatever the length  *)
(* and the direction of the gesture.                                       *)
(***************************************************************************)
C23_AnimatingSuppressesGestures ==
  [][/\ \A e \in GestureEvents :
          (phase = "mounted" /\ state.animating /\ SwipeMove(e)) => Untouched
     /\ (phase = "mounted" /\ state.dragging /\ state.animating /\ SwipeEnd) =>
          /\ state' = [state EXCEPT
                         !.dragging = FALSE, !.swiping = FALSE,
                         !.swiped = FALSE, !.swipeRatio = zeroRatio,
                         !.swipeDirectionSign = 1,
                         !.swipeLeftDistance = 0, !.swipeDownDistance = 0,
                         !.touchObject = idleTouchObject]
          /\ timeouts' = timeouts
          /\ Len(log') = 1 /\ log'[1].hook = "onSwipeEnd"]_vars

\* A gesture was released during an animation: the transition is still
\* pending, the gesture is idle and only onSwipeEnd was invoked.
C23_Witness ==
  /\ phase = "mounted"
  /\ state.animating /\ timeouts # <<>>
  /\ ~state.dragging
  /\ Len(log) = 1 /\ log[1].hook = "onSwipeEnd"

(***************************************************************************)
(* C24. Controlled reads.  While the caller supplies step, every snapshot  *)
(* handed to a hook reports the caller's step, next() and previous()       *)
(* compute their target from it, and a step request notifies onChange      *)
(* with the target exactly once: in the same action without an animation   *)
(* delay, when the timeout fires with one.  The step the widget reports    *)
(* changes only in a re-render that passes a new step prop.  While the     *)
(* caller supplies paused, every snapshot reports the caller's paused.     *)
(***************************************************************************)
\* The hooks that are handed a snapshot, and the snapshot.
WithSnapshot == {i \in 1..Len(log) : log[i].hook # "onSwipeStart"}
SnapshotOf(i) ==
  IF log[i].hook \in {"onPlay", "onPause"} THEN log[i].args[1] ELSE log[i].args[2]

ControlledReads ==
  /\ isPropControlled(props, "step") =>
       /\ \A i \in WithSnapshot : SnapshotOf(i).step = Val(props.step)
       /\ \A i \in Invoked("onNext") :
            StepOf(i) = getNextStep(props, Val(props.step))
       /\ \A i \in Invoked("onPrevious") :
            StepOf(i) = getPreviousStep(props, Val(props.step))
       /\ (phase = "mounted" /\ props.animationSpeed = 0) =>
            \A i \in Invoked("onBeforeChange") :
              /\ Cardinality(Invoked("onChange")) = 1
              /\ \A j \in Invoked("onChange") : j > i /\ StepOf(j) = StepOf(i)
  /\ isPropControlled(props, "paused") =>
       \A i \in WithSnapshot : SnapshotOf(i).paused = Val(props.paused)

C24_ControlledReads ==
  [][Live' =>
       /\ ControlledReads'
       /\ (isPropControlled(props, "step") /\ AnimationEnd) =>
            /\ Cardinality(Invoked("onChange")') = 1
            /\ log'[1].hook = "onChange" /\ StepOf(1)' = Head(timeouts)
       /\ (isPropControlled(props, "step") /\ EffectiveStep' # EffectiveStep)
            => props'.step # props.step]_vars

\* The caller's step differs from the one the state holds, and next() was
\* computed from the caller's: onChange was notified once with that target.
C24_Witness ==
  /\ phase = "mounted"
  /\ isPropControlled(props, "step")
  /\ state.step # Val(props.step)
  /\ getNextStep(props, state.step) # getNextStep(props, Val(props.step))
  /\ \E i \in Invoked("onNext") :
       /\ SnapOf(i).step = Val(props.step)
       /\ StepOf(i) = getNextStep(props, Val(props.step))
       /\ \E j \in Invoked("onChange") : StepOf(j) = StepOf(i)
  /\ Cardinality(Invoked("onChange")) = 1

(***************************************************************************)
(* C25. The order of the hooks of a transition to a step t, on a mounted   *)
(* widget: onNext / onPrevious (with t), then onBeforeChange(t) with a     *)
(* snapshot of the step before the change, then the commit, then           *)
(* onChange(t), then onAfterChange(t); with step uncontrolled the step is  *)
(* t after the commit and onChange and onAfterChange see it in their       *)
(* snapshot.  Without an animation delay all of it is one action; with a   *)
(* delay the request only schedules the commit, and the commit, onChange   *)
(* and onAfterChange come when the timeout fires.                          *)
(***************************************************************************)
\* The positions of L where `hook` was invoked.
HooksAt(L, hook) == {i \in 1..Len(L) : L[i].hook = hook}

\* In L, onChange(t) at position j is followed at once by onAfterChange(t),
\* both with the committed step in their snapshot when st holds the step.
Notified(L, j, t, st) ==
  /\ L[j].hook = "onChange" /\ L[j].args[1] = t
  /\ j + 1 <= Len(L)
  /\ L[j + 1].hook = "onAfterChange" /\ L[j + 1].args[1] = t
  /\ ~isPropControlled(props, "step") =>
       /\ st.step = t
       /\ L[j].args[2].step = t
       /\ L[j + 1].args[2].step = t

C25_HookOrdering ==
  [][(phase = "mounted" /\ phase' = "mounted" /\ props' = props) =>
       /\ \A i \in HooksAt(log', "onNext") \cup HooksAt(log', "onPrevious") :
            /\ i + 1 <= Len(log')
            /\ log'[i + 1].hook = "onBeforeChange"
            /\ log'[i + 1].args[1] = log'[i].args[1]
       /\ \A i \in HooksAt(log', "onBeforeChange") :
            /\ log'[i].args[2].step = EffectiveStep
            /\ IF props.animationSpeed = 0
                 THEN \E j \in (i + 1)..Len(log') :
                        Notified(log', j, log'[i].args[1], state')
                 ELSE /\ HooksAt(log', "onChange") = {}
                      /\ HooksAt(log', "onAfterChange") = {}
                      /\ state'.step = state.step
                      /\ timeouts' = Append(timeouts, log'[i].args[1])
       /\ \A j \in HooksAt(log', "onChange") :
            /\ Notified(log', j, log'[j].args[1], state')
            /\ props.animationSpeed # 0 =>
                 /\ j = 1
                 /\ timeouts # <<>> /\ log'[j].args[1] = Head(timeouts)
                 /\ timeouts' = Tail(timeouts)
       /\ \A j \in HooksAt(log', "onAfterChange") :
            j > 1 /\ log'[j - 1].hook = "onChange"]_vars

\* The timeout of an animated next() fired: the step is committed and
\* onChange and onAfterChange were invoked with it, in this order.
C25_Witness ==
  /\ phase = "mounted"
  /\ props.animationSpeed # 0 /\ ~isPropControlled(props, "step")
  /\ Len(log) = 2
  /\ log[1].hook = "onChange" /\ log[2].hook = "onAfterChange"
  /\ state.step = StepOf(1) /\ SnapOf(1).step = StepOf(1)
  /\ state.step # props.defaultStep

(***************************************************************************)
(* C26. With step uncontrolled, every onChange reports a step that differs *)
(* from the step held before the request that triggered it.  Without an    *)
(* animation delay the request and its onChange are one action, so the     *)
(* step before the request is the step before the action.                  *)
(***************************************************************************)
C26_OnChangeOnlyWhenChanged ==
  [][( /\ phase = "mounted"
       /\ ~isPropControlled(props, "step")
       /\ props.animationSpeed = 0 )
     => \A j \in HooksAt(log', "onChange") : log'[j].args[1] # state.step]_vars

(***************************************************************************)
(* C27. Without a duration no action changes the paused value the state    *)
(* holds (with paused uncontrolled it stays true, the negation of          *)
(* autoPlay) and no playback timer is ever live: play(), pause(),          *)
(* mouseEnter and mouseLeave only invoke their hooks.                      *)
(***************************************************************************)
C27_NoDurationNoPauseChange ==
  [][(Live /\ props.duration = 0) =>
       /\ state'.paused = state.paused
       /\ ~isPropControlled(props, "paused") => state'.paused = ~props.autoPlay
       /\ timers' = {} /\ interval' = {}]_vars

\* play() ran on a widget without a duration: paused is still true.
C27_Witness ==
  /\ phase = "mounted"
  /\ props.duration = 0 /\ ~isPropControlled(props, "paused")
  /\ Invoked("onPlay") # {}
  /\ state.paused
  /\ timers = {}

(***************************************************************************)
(* C28. getSign is 1 for 0 and for every positive number and -1 for every  *)
(* negative number, so its result is -1 or 1; and so is the direction      *)
(* sign swipeMove computes with it from the distance on the primary axis.  *)
(***************************************************************************)
SignInputs == (0 - MaxDistance)..MaxDistance

C28_GetSign ==
  /\ \A x \in SignInputs :
       /\ getSign(x) = (IF x < 0 THEN -1 ELSE 1)
       /\ getSign(x) \in {-1, 1}
  /\ Live =>
       /\ state.swipeDirectionSign \in {-1, 1}
       /\ \A i \in Invoked("onSwipeMove") :
            LET distance == IF props.vertical
                              THEN log[i].args[1].swipeDownDistance
                              ELSE log[i].args[1].swipeLeftDistance
            IN SnapOf(i).swipeDirectionSign = (IF distance < 0 THEN -1 ELSE 1)

\* A swipeMove to the start position: the distance is 0 and the sign is 1.
C28_Witness ==
  /\ phase = "mounted"
  /\ ~props.vertical
  /\ \E i \in Invoked("onSwipeMove") :
       /\ log[i].args[1].swipeLeftDistance = 0
       /\ SnapOf(i).swipeDirectionSign = 1
  /\ state.swipeDirectionSign = 1

(***************************************************************************)
(* C29. A step request that reaches setStepState cancels the running       *)
(* playback timer before the commit and before onChange.  A handler runs   *)
(* to completion, so what can be seen of it is the state it leaves: with   *)
(* step controlled no playback timer is live once onChange was notified;   *)
(* with step uncontrolled the only timer that may be live is the one the   *)
(* instance holds, started after the commit.                               *)
(***************************************************************************)
C29_StopTimerFirst ==
  [][(phase = "mounted" /\ HooksAt(log', "onChange") # {}) =>
       IF isPropControlled(props, "step")
         THEN timers' = {} /\ interval' = {}
         ELSE timers' \subseteq interval']_vars

(***************************************************************************)
(* A swipeMove that computes: the component is dragging and not animating. *)
(* Nearest(n, q) says that n whole pixels is what Math.round makes of q    *)
(* quarters of a pixel.                                                    *)
(***************************************************************************)
Computes(e) ==
  /\ phase = "mounted" /\ state.dragging /\ ~state.animating
  /\ phase' = "mounted" /\ state'.touchObject.curX = e.x
  /\ SwipeMove(e)

Nearest(n, q) == 4 * n - 2 <= q /\ q < 4 * n + 2

(***************************************************************************)
(* C30, as stated.  A swipeMove while dragging and not animating leaves    *)
(* the horizontal and vertical lengths equal to the absolute deltas from   *)
(* the start position, the gesture length equal to the absolute delta on   *)
(* the primary axis, the direction sign equal to the sign of the signed    *)
(* primary delta (0 as positive), swiped and the ratio computed from that  *)
(* delta, and swiping true when that delta exceeds 4.                      *)
(***************************************************************************)
C30_ExactDeltas ==
  [][\A e \in GestureEvents :
       Computes(e) =>
         LET dx == e.x - state.touchObject.startX
             dy == e.y - state.touchObject.startY
             delta == IF props.vertical THEN dy ELSE dx
             t == state'.touchObject
         IN /\ Px(t.swipeLengthX) = Abs(dx)
            /\ Px(t.swipeLengthY) = Abs(dy)
            /\ Px(t.swipeLength) = Abs(delta)
            /\ state'.swipeDirectionSign = (IF delta < 0 THEN -1 ELSE 1)
            /\ state'.swiped =
                 (Abs(delta) * props.touchThreshold > Px(Val(targetSize)))
            /\ state'.swipeRatio.num * Px(Val(targetSize))
                 = Abs(delta) * props.touchThreshold * state'.swipeRatio.den
            /\ (Abs(delta) > Px(4) => state'.swiping)]_vars

(***************************************************************************)
(* C30, amended.  A swipeMove while dragging and not animating leaves the  *)
(* horizontal and vertical lengths equal to the absolute deltas from the   *)
(* start position rounded to the nearest whole number, and the gesture     *)
(* length equal to the rounded length on the primary axis.  The signed     *)
(* distances are the rounded lengths, negated unless the pointer is past   *)
(* the start; the direction sign is the sign of the signed primary         *)
(* distance with 0 as positive.  swiped says that the gesture length is    *)
(* greater than targetExtent / touchThreshold, the ratio is the gesture    *)
(* length over that quotient, and swiping is true once the gesture length  *)
(* exceeds 4 and is otherwise left as it was.                              *)
(***************************************************************************)
C30_SwipeMoveComputation ==
  [][\A e \in GestureEvents :
       Computes(e) =>
         LET dx == e.x - state.touchObject.startX
             dy == e.y - state.touchObject.startY
             t == state'.touchObject
             distance == IF props.vertical THEN state'.swipeDownDistance
                                           ELSE state'.swipeLeftDistance
         IN /\ Nearest(t.swipeLengthX, Abs(dx))
            /\ Nearest(t.swipeLengthY, Abs(dy))
            /\ t.swipeLength =
                 (IF props.vertical THEN t.swipeLengthY ELSE t.swipeLengthX)
            /\ state'.swipeLeftDistance =
                 (IF dx > 0 THEN t.swipeLengthX ELSE 0 - t.swipeLengthX)
            /\ state'.swipeDownDistance =
                 (IF dy > 0 THEN t.swipeLengthY ELSE 0 - t.swipeLengthY)
            /\ state'.swipeDirectionSign = (IF distance < 0 THEN -1 ELSE 1)
            /\ state'.swiped =
                 (t.swipeLength * props.touchThreshold > Val(targetSize))
            /\ state'.swipeRatio =
                 [num |-> t.swipeLength * props.touchThreshold,
                  den |-> Val(targetSize)]
            /\ state'.swiping = (state.swiping \/ t.swipeLength > 4)]_vars

\* A horizontal move four and a quarter pixels to the right of the start: the
\* length is 4 and the gesture is not yet a swipe.
C30_Witness ==
  /\ phase = "mounted"
  /\ ~props.vertical
  /\ state.dragging
  /\ Invoked("onSwipeMove") # {}
  /\ state.touchObject.curX - state.touchObject.startX = Px(4) + 1
  /\ state.touchObject.swipeLength = 4
  /\ state.swipeLeftDistance = 4
  /\ state.swipeDirectionSign = 1
  /\ ~state.swiping
  /\ ~state.swiped

(***************************************************************************)
(* C31. getValidStep, for the current step of every reachable state and    *)
(* every offset: with a total and without cycle it is the current step     *)
(* plus the offset clamped into 0..total-1; with a total and cycle it is   *)
(* the current step plus the offset minus total; without a total it is the *)
(* current step plus the offset.                                           *)
(***************************************************************************)
Offsets == (0 - MaxStep)..MaxStep

Clamp(n, lo, hi) == IF n < lo THEN lo ELSE IF n > hi THEN hi ELSE n

C31_ValidStep ==
  Live =>
    \A stepOffset \in Offsets :
      LET target == EffectiveStep + stepOffset
          valid == getValidStep(props, state, stepOffset)
      IN /\ (props.total > 0 /\ ~props.cycle) =>
              valid = Clamp(target, 0, props.total - 1)
         /\ (props.total > 0 /\ props.cycle) => valid = target - props.total
         /\ props.total = 0 => valid = target

\* From step 0 of a cycling widget one step forward is 1 - total, below 0.
C31_Witness ==
  /\ phase = "mounted"
  /\ props.total = MaxTotal /\ props.cycle
  /\ EffectiveStep = 0
  /\ getValidStep(props, state, 1) = 1 - props.total

(***************************************************************************)
(* C32. Whenever dragging is false every gesture field has its reset       *)
(* value: swiping and swiped false, ratio 0, direction sign 1, both        *)
(* distances 0, start and current positions and the gesture length 0.  A   *)
(* release while dragging (swipeEnd, directly or from a mouse leaving the  *)
(* target) ends with dragging false, whether or not it requests a step,    *)
(* and invokes onSwipeEnd once with the reset values and with a snapshot   *)
(* whose gesture fields are reset.                                         *)
(***************************************************************************)
IdleGesture(st) ==
  /\ ~st.swiping /\ ~st.swiped
  /\ st.swipeRatio.num = 0
  /\ st.swipeDirectionSign = 1
  /\ st.swipeLeftDistance = 0 /\ st.swipeDownDistance = 0

IdleTouch(t) ==
  t.startX = 0 /\ t.startY = 0 /\ t.curX = 0 /\ t.curY = 0 /\ t.swipeLength = 0

Release == phase = "mounted" /\ state.dragging /\ (SwipeEnd \/ MouseLeave)

C32_GestureIdle ==
  /\ []((Live /\ ~state.dragging) =>
          IdleGesture(state) /\ IdleTouch(state.touchObject))
  /\ [][Release =>
          /\ ~state'.dragging
          /\ Cardinality(HooksAt(log', "onSwipeEnd")) = 1
          /\ \A j \in HooksAt(log', "onSwipeEnd") :
               /\ ~log'[j].args[1].dragging
               /\ IdleGesture(log'[j].args[1])
               /\ IdleTouch(log'[j].args[1].touchObject)
               /\ ~log'[j].args[2].dragging
               /\ IdleGesture(log'[j].args[2])]_vars

\* A gesture that had become a swipe was released and asked for a step: the
\* step changed and the gesture is idle again.
C32_Witness ==
  /\ phase = "mounted"
  /\ ~state.dragging
  /\ Invoked("onSwipeEnd") # {}
  /\ Invoked("onBeforeChange") # {}
  /\ \E i \in Invoked("onSwipeEnd") : SnapOf(i).step # state.step
  /\ IdleGesture(state)

(***************************************************************************)
(* C33. animating is true only while a delayed commit is pending: in every *)
(* state of a mounted widget, with step controlled or not, animating       *)
(* implies that an animation timeout is scheduled.                         *)
(***************************************************************************)
C33_AnimatingOnlyWhilePending ==
  (phase = "mounted" /\ state.animating) => timeouts # <<>>

(***************************************************************************)
(* C34. No next() is lost: without a total, with step uncontrolled and no  *)
(* playback timer, every next() asks for one stepInterval more than the    *)
(* step asked for last (the step waiting to be committed last, or the      *)
(* committed step when none waits), so that after k calls and all pending  *)
(* commits the step is the initial one plus k times stepInterval, with and *)
(* without an animation delay.                                             *)
(***************************************************************************)
LastRequested ==
  IF timeouts = <<>> THEN state.step ELSE timeouts[Len(timeouts)]

C34_NoLostNavigation ==
  [][( /\ phase = "mounted"
       /\ props.total = 0 /\ props.duration = 0
       /\ ~isPropControlled(props, "step")
       /\ ClickNext ) =>
       IF props.animationSpeed = 0
         THEN state'.step = LastRequested + props.stepInterval
         ELSE /\ timeouts' # <<>>
              /\ timeouts'[Len(timeouts')] = LastRequested + props.stepInterval]_vars

(***************************************************************************)
(* C35. Cycling, with a total: for every step s of 0..total-1,             *)
(* getPreviousStep undoes getNextStep and getNextStep undoes               *)
(* getPreviousStep, whatever the stepInterval.                             *)
(***************************************************************************)
C35_CycleRoundTrip ==
  (Live /\ props.total > 0 /\ props.cycle /\ props.stepInterval >= 1) =>
    \A s \in 0..(props.total - 1) :
      /\ getPreviousStep(props, getNextStep(props, s)) = s
      /\ getNextStep(props, getPreviousStep(props, s)) = s

(***************************************************************************)
(* C36. play, pause, mouseEnter and mouseLeave leave the step, the         *)
(* animating flag and every gesture field as they are; next, previous, a   *)
(* click on a StepIndex, a timer tick, a delayed commit and the swipe      *)
(* handlers leave paused as it is.  (A mouse that leaves while dragging    *)
(* runs swipeEnd, so it counts with the swipe handlers.)                   *)
(***************************************************************************)
PlayHandler ==
  ClickPlay \/ ClickPause \/ MouseEnter \/ (MouseLeave /\ ~state.dragging)

StepHandler ==
  \/ ClickNext \/ ClickPrevious \/ SetStep \/ IntervalTick \/ AnimationEnd
  \/ Gesture(LineEvents)
  \/ (MouseLeave /\ state.dragging)

GestureFields(st) ==
  <<st.dragging, st.swiping, st.swiped, st.swipeRatio, st.swipeDirectionSign,
    st.swipeLeftDistance, st.swipeDownDistance, st.touchObject>>

C36_FrameConditions ==
  [][(Live /\ Live') =>
       /\ \/ /\ state'.step = state.step
             /\ state'.animating = state.animating
             /\ GestureFields(state') = GestureFields(state)
             /\ timeouts' = timeouts
          \/ ~PlayHandler
       /\ \/ state'.paused = state.paused
          \/ ~StepHandler]_vars

\* pause() during an animated transition of a widget that was playing: the
\* pending commit and the animating flag are still there.
C36_Witness ==
  /\ phase = "mounted"
  /\ ~isPropControlled(props, "paused") /\ ~isPropControlled(props, "step")
  /\ state.animating /\ timeouts # <<>>
  /\ state.paused
  /\ Invoked("onPause") # {}
  /\ \E i \in Invoked("onPause") : ~log[i].args[1].paused /\ log[i].args[1].animating

(***************************************************************************)
(* C37. A cycling widget that plays by itself (a total, a duration,        *)
(* autoPlay, step and paused uncontrolled, nobody touching it) advances    *)
(* for ever when its timer fires fairly: it is on step 0 again and again,  *)
(* and on the step after 0 again and again; each tick asks for             *)
(* getNextStep of the current step (and commits it at once when there is   *)
(* no animation delay), and the timer is live in every state of the        *)
(* mounted widget.                                                         *)
(***************************************************************************)
Playing == phase = "mounted"

C37_AutoplayLiveness ==
  /\ []<>(Playing /\ state.step = 0)
  /\ []<>(Playing /\ state.step = getNextStep(props, 0))
  /\ [](Playing => (timers # {} /\ timers = interval))
  /\ [][(Playing /\ IntervalTick) =>
          /\ \E i \in HooksAt(log', "onNext") :
               log'[i].args[1] = getNextStep(props, state.step)
          /\ IF props.animationSpeed = 0
               THEN state'.step = getNextStep(props, state.step)
               ELSE timeouts' = Append(timeouts, getNextStep(props, state.step))]_vars

\* The timer took the widget round: a tick on the last step brought it back
\* to step 0, and the timer is live.
C37_Witness ==
  /\ Playing
  /\ props.total = MaxTotal /\ props.stepInterval = 1
  /\ props.animationSpeed = 0
  /\ props.defaultStep = 0
  /\ timers # {}
  /\ state.step = 0
  /\ \E i \in Invoked("onNext") :
       SnapOf(i).step = props.total - 1 /\ StepOf(i) = 0

(***************************************************************************)
(* C38. The swiped flag predicts the release: a swipeEnd while dragging    *)
(* and not animating, after any sequence of swipeStart and swipeMove,      *)
(* asks for a step (onBeforeChange is invoked) if and only if swiped was   *)
(* true in the state just before it.                                       *)
(***************************************************************************)
C38_SwipedPredictsRelease ==
  [][(phase = "mounted" /\ state.dragging /\ ~state.animating /\ SwipeEnd) =>
       (state.swiped <=> HooksAt(log', "onBeforeChange") # {})]_vars

(***************************************************************************)
(* C39. Pause on hover, with a duration and paused uncontrolled.  A        *)
(* mouseEnter while playing pauses, and the mouseLeave that follows        *)
(* resumes.  A mouseLeave resumes only a pause that a mouseEnter made:     *)
(* after a pause() that paused a playing widget, and after a mouseEnter    *)
(* over a widget that was paused already, a mouseLeave leaves paused as it *)
(* is.  WouldResume says of a state that a mouseLeave in it sets paused to *)
(* false.                                                                  *)
(***************************************************************************)
Hovering ==
  /\ phase = "mounted"
  /\ props.pauseOnHover /\ props.duration # 0
  /\ ~isPropControlled(props, "paused")
  /\ ~state.dragging

WouldResume == state.paused /\ ~mouseLeave(props, W).state.paused

C39_HoverResume ==
  [][Hovering =>
       /\ (~state.paused /\ MouseEnter) => (state'.paused /\ WouldResume')
       /\ (~state.paused /\ ClickPause) => (state'.paused /\ ~WouldResume')
       /\ (state.paused /\ ~WouldResume /\ MouseEnter) => ~WouldResume']_vars

====
